---------------------------- MODULE Spec2Model ----------------------------
(***************************************************************************)
(* Topiclyzer: a sequential pipeline of three stages run by main.py.       *)
(*   question_extractor      PDF text -> Gemini -> json/<name>.json        *)
(*   process_json_files      json/*.json -> Gemini -> answers_markdown/*.md*)
(*   convert_markdown_to_pdf answers_markdown/*.md -> generated_pdf/*.pdf  *)
(* Strings are sequences of one-character strings, so that the string      *)
(* operations of the code (endswith, replace, splitext, strip, the fence   *)
(* regular expression, json.loads, json.dump) are computed character by    *)
(* character.  JSON values are tagged records:                             *)
(*   [t |-> "str", v |-> characters]                                       *)
(*   [t |-> "arr", v |-> sequence of values]                               *)
(*   [t |-> "obj", v |-> sequence of [k |-> characters, v |-> value]]      *)
(***************************************************************************)
EXTENDS Naturals, Sequences, FiniteSets, TLC

(***************************************************************************)
(* Python str operations                                                   *)
(***************************************************************************)

\* str.isspace() of one character, for the characters the model uses.
IsSpace(c) == c \in {" ", "\n", "\t"}

\* s[i:].startswith(pat), i 1-based.
StartsWithAt(s, i, pat) ==
    /\ i >= 1
    /\ i + Len(pat) - 1 <= Len(s)
    /\ \A k \in 1..Len(pat) : s[i + k - 1] = pat[k]

\* str.endswith(suf)
EndsWith(s, suf) ==
    /\ Len(suf) <= Len(s)
    /\ StartsWithAt(s, Len(s) - Len(suf) + 1, suf)

\* str.find(pat, i): the least index >= i where pat occurs, 0 when none.
FindFrom(s, i, pat) ==
    LET hits == {p \in i..Len(s) : StartsWithAt(s, p, pat)}
    IN  IF hits = {} THEN 0
        ELSE CHOOSE p \in hits : \A q \in hits : p <= q

\* str.replace(old, new): every non-overlapping occurrence, left to right.
RECURSIVE ReplaceFrom(_, _, _, _)
ReplaceFrom(s, i, old, new) ==
    IF i > Len(s) THEN <<>>
    ELSE IF StartsWithAt(s, i, old)
         THEN new \o ReplaceFrom(s, i + Len(old), old, new)
         ELSE <<s[i]>> \o ReplaceFrom(s, i + 1, old, new)

Replace(s, old, new) == ReplaceFrom(s, 1, old, new)

\* str.strip(): leading and trailing whitespace removed.
Strip(s) ==
    LET keep == {p \in 1..Len(s) : ~IsSpace(s[p])}
    IN  IF keep = {} THEN <<>>
        ELSE LET lo == CHOOSE p \in keep : \A q \in keep : p <= q
                 hi == CHOOSE p \in keep : \A q \in keep : p >= q
             IN  SubSeq(s, lo, hi)

\* os.path.splitext(name)[0] for a name without directory separators: the
\* name up to its last dot, the whole name when it has no dot or only
\* leading dots.
SplitextRoot(name) ==
    LET dots == {p \in 1..Len(name) : name[p] = "."}
        last == CHOOSE p \in dots : \A q \in dots : p >= q
    IN  IF dots = {} THEN name
        ELSE IF \A p \in 1..(last - 1) : name[p] = "." THEN name
        ELSE SubSeq(name, 1, last - 1)

\* str(n) for the small naturals the model numbers questions with.
DigitChars == <<"0", "1", "2", "3", "4", "5", "6", "7", "8", "9">>

RECURSIVE IntToStr(_)
IntToStr(n) ==
    IF n < 10 THEN <<DigitChars[n + 1]>>
    ELSE IntToStr(n \div 10) \o <<DigitChars[(n % 10) + 1]>>

(***************************************************************************)
(* json.loads, for the JSON texts the model uses: objects, arrays and      *)
(* strings without escapes.  Anything else is a JSONDecodeError.           *)
(***************************************************************************)

JStr(chars) == [t |-> "str", v |-> chars]
JArr(items) == [t |-> "arr", v |-> items]
JObj(members) == [t |-> "obj", v |-> members]
JNull == [t |-> "null", v |-> <<>>]

ParseFail == [ok |-> FALSE, val |-> JNull, next |-> 0]

\* The first index >= i that holds no JSON whitespace, Len(s) + 1 when none.
RECURSIVE SkipWs(_, _)
SkipWs(s, i) ==
    IF i > Len(s) THEN Len(s) + 1
    ELSE IF IsSpace(s[i]) THEN SkipWs(s, i + 1)
    ELSE i

\* The index of the quote that closes a string literal whose characters
\* start at i, 0 when the text ends first.
RECURSIVE StringEnd(_, _)
StringEnd(s, i) ==
    IF i > Len(s) THEN 0
    ELSE IF s[i] = "\"" THEN i
    ELSE StringEnd(s, i + 1)

\* A string literal opening at s[i] = '"'.  The strict decoder rejects
\* control characters inside a string.
ParseString(s, i) ==
    LET close == StringEnd(s, i + 1)
    IN  IF close = 0 THEN ParseFail
        ELSE IF \E p \in (i + 1)..(close - 1) : s[p] \in {"\n", "\t"}
             THEN ParseFail
        ELSE [ok |-> TRUE, val |-> JStr(SubSeq(s, i + 1, close - 1)),
              next |-> close + 1]

\* dict[k] = v: a repeated key keeps its place and takes the last value.
PutMember(members, k, v) ==
    IF \E p \in 1..Len(members) : members[p].k = k
    THEN [p \in 1..Len(members) |->
             IF members[p].k = k THEN [k |-> k, v |-> v] ELSE members[p]]
    ELSE Append(members, [k |-> k, v |-> v])

RECURSIVE ParseValue(_, _), ParseElems(_, _, _), ParseMembers(_, _, _)

\* The elements of an array from index i on, the opening bracket consumed
\* and at least one element expected.
ParseElems(s, i, acc) ==
    LET e == ParseValue(s, i)
        j == SkipWs(s, e.next)
    IN  IF ~e.ok \/ j > Len(s) THEN ParseFail
        ELSE IF s[j] = "," THEN ParseElems(s, j + 1, Append(acc, e.val))
        ELSE IF s[j] = "]"
             THEN [ok |-> TRUE, val |-> JArr(Append(acc, e.val)), next |-> j + 1]
        ELSE ParseFail

\* The members of an object from index i on, the opening brace consumed
\* and at least one member expected.
ParseMembers(s, i, acc) ==
    LET ki == SkipWs(s, i)
    IN  IF ki > Len(s) \/ s[ki] # "\"" THEN ParseFail
        ELSE
        LET name == ParseString(s, ki)
            ci  == SkipWs(s, name.next)
        IN  IF ~name.ok \/ ci > Len(s) \/ s[ci] # ":" THEN ParseFail
            ELSE
            LET e == ParseValue(s, ci + 1)
                j == SkipWs(s, e.next)
            IN  IF ~e.ok \/ j > Len(s) THEN ParseFail
                ELSE IF s[j] = ","
                     THEN ParseMembers(s, j + 1, PutMember(acc, name.val.v, e.val))
                ELSE IF s[j] = "}"
                     THEN [ok |-> TRUE,
                           val |-> JObj(PutMember(acc, name.val.v, e.val)),
                           next |-> j + 1]
                ELSE ParseFail

ParseValue(s, i) ==
    LET b == SkipWs(s, i)
    IN  IF b > Len(s) THEN ParseFail
        ELSE IF s[b] = "\"" THEN ParseString(s, b)
        ELSE IF s[b] = "["
             THEN LET c == SkipWs(s, b + 1)
                  IN  IF c <= Len(s) /\ s[c] = "]"
                      THEN [ok |-> TRUE, val |-> JArr(<<>>), next |-> c + 1]
                      ELSE ParseElems(s, b + 1, <<>>)
        ELSE IF s[b] = "{"
             THEN LET c == SkipWs(s, b + 1)
                  IN  IF c <= Len(s) /\ s[c] = "}"
                      THEN [ok |-> TRUE, val |-> JObj(<<>>), next |-> c + 1]
                      ELSE ParseMembers(s, b + 1, <<>>)
        ELSE ParseFail

\* json.loads(s): [ok |-> TRUE, val |-> value], or ok FALSE for a
\* JSONDecodeError (no value, or text after the value).
JsonLoads(s) ==
    LET r == ParseValue(s, 1)
    IN  IF r.ok /\ SkipWs(s, r.next) > Len(s)
        THEN [ok |-> TRUE, val |-> r.val]
        ELSE [ok |-> FALSE, val |-> JNull]

(***************************************************************************)
(* json.dump(data, f, ensure_ascii=False, indent=4)                        *)
(***************************************************************************)

IndentWidth == 4

Spaces(n) == [p \in 1..n |-> " "]

Quoted(chars) == <<"\"">> \o chars \o <<"\"">>

RECURSIVE JsonDumpsAt(_, _), DumpItems(_, _, _), DumpMembers(_, _, _)

DumpItems(items, p, level) ==
    IF p > Len(items) THEN <<>>
    ELSE (IF p > 1 THEN <<",">> ELSE <<>>)
         \o <<"\n">> \o Spaces(IndentWidth * level)
         \o JsonDumpsAt(items[p], level)
         \o DumpItems(items, p + 1, level)

DumpMembers(members, p, level) ==
    IF p > Len(members) THEN <<>>
    ELSE (IF p > 1 THEN <<",">> ELSE <<>>)
         \o <<"\n">> \o Spaces(IndentWidth * level)
         \o Quoted(members[p].k) \o <<":", " ">>
         \o JsonDumpsAt(members[p].v, level)
         \o DumpMembers(members, p + 1, level)

JsonDumpsAt(val, level) ==
    IF val.t = "str" THEN Quoted(val.v)
    ELSE IF val.t = "arr"
         THEN IF val.v = <<>> THEN <<"[", "]">>
              ELSE <<"[">> \o DumpItems(val.v, 1, level + 1)
                   \o <<"\n">> \o Spaces(IndentWidth * level) \o <<"]">>
    ELSE IF val.v = <<>> THEN <<"{", "}">>
         ELSE <<"{">> \o DumpMembers(val.v, 1, level + 1)
              \o <<"\n">> \o Spaces(IndentWidth * level) \o <<"}">>

JsonDumps(val) == JsonDumpsAt(val, 0)

(***************************************************************************)
(* Literals of the code                                                    *)
(***************************************************************************)

\* The backtick, which a TLA+ string literal cannot hold.
Backtick == "backtick"

DotPdf == <<".", "p", "d", "f">>
DotJson == <<".", "j", "s", "o", "n">>
DotMd == <<".", "m", "d">>
DotMarkdown == <<".", "m", "a", "r", "k", "d", "o", "w", "n">>

KeyFilename == <<"f", "i", "l", "e", "n", "a", "m", "e">>
KeyQuestion == <<"Q", "u", "e", "s", "t", "i", "o", "n">>
KeyContext == <<"C", "o", "n", "t", "e", "x", "t">>
KeyMarks == <<"M", "a", "r", "k", "s">>

Fence == <<Backtick, Backtick, Backtick>>
JsonTag == <<"j", "s", "o", "n">>

NoRelevant == <<"N", "o", " ", "r", "e", "l", "e", "v", "a", "n", "t", " ",
    "q", "u", "e", "s", "t", "i", "o", "n", "s", " ", "f", "o", "u", "n",
    "d", ".">>
AnalysisError == <<"E", "r", "r", "o", "r", " ", "d", "u", "r", "i", "n",
    "g", " ", "A", "I", " ", "a", "n", "a", "l", "y", "s", "i", "s", ".">>
AnswerError == <<"E", "r", "r", "o", "r", ":", " ", "C", "o", "u", "l", "d",
    " ", "n", "o", "t", " ", "g", "e", "n", "e", "r", "a", "t", "e", " ",
    "a", "n", "s", "w", "e", "r", ".">>
MarksDefault == <<"(", "N", "o", "t", " ", "p", "r", "o", "v", "i", "d", "e",
    "d", ")">>

(***************************************************************************)
(* question_extractor.py                                                   *)
(***************************************************************************)

\* re.search(r"```(?:json)?\s*(.*?)```", text, re.DOTALL): the first fence,
\* the optional tag and the whitespace after it, then group 1 up to the
\* next fence.  The characters between the first fence and the start of
\* group 1 are no backticks, so a later start matches only if this one
\* does.
FenceSearch(text) ==
    LET open == FindFrom(text, 1, Fence)
        tag  == IF StartsWithAt(text, open + Len(Fence), JsonTag)
                THEN open + Len(Fence) + Len(JsonTag)
                ELSE open + Len(Fence)
        from == SkipWs(text, tag)
        shut == FindFrom(text, from, Fence)
    IN  IF open = 0 \/ shut = 0
        THEN [match |-> FALSE, group |-> <<>>]
        ELSE [match |-> TRUE, group |-> SubSeq(text, from, shut - 1)]

\* extract_json_from_response(response_text): the parsed value, or the
\* exception raised (ValueError when no fenced block is found, the
\* JSONDecodeError of json.loads otherwise).
extract_json_from_response(response_text) ==
    LET m == FenceSearch(response_text)
        r == JsonLoads(Strip(m.group))
    IN  IF ~m.match THEN [raised |-> "ValueError", val |-> JNull]
        ELSE IF ~r.ok THEN [raised |-> "JSONDecodeError", val |-> JNull]
        ELSE [raised |-> "", val |-> r.val]

\* A variant of analyze_text_with_gemini that does not treat a failed parse
\* as a failure: it returns the response text as it came.
analyze_text_unchecked(apiKey, response) ==
    IF apiKey # "set" THEN JStr(<<>>)
    ELSE IF response.kind = "exception" THEN JStr(AnalysisError)
    ELSE IF response.kind = "nocontent" THEN JStr(NoRelevant)
    ELSE LET r == extract_json_from_response(response.text)
         IN  IF r.raised # "" THEN JStr(response.text) ELSE r.val

\* analyze_text_with_gemini: what it returns for one outcome of the remote
\* call.  A return value is a parsed JSON value or a Python str, modelled
\* as a JSON string.  apiKey is the value os.getenv returns.
analyze_text_with_gemini(apiKey, response) ==
    IF apiKey # "set" THEN JStr(<<>>)
    ELSE IF response.kind = "exception" THEN JStr(AnalysisError)
    ELSE IF response.kind = "nocontent" THEN JStr(NoRelevant)
    ELSE LET r == extract_json_from_response(response.text)
         IN  IF r.raised # "" THEN JStr(AnalysisError) ELSE r.val

\* bool(value) of a str, list or dict.
Truthy(val) == val.v # <<>>

\* The test of question_extractor that guards the write.
ShouldWrite(relevant_questions) ==
    /\ Truthy(relevant_questions)
    /\ relevant_questions # JStr(NoRelevant)
    /\ relevant_questions # JStr(AnalysisError)

\* pdf_file_name.replace(".pdf", ".json")
JsonName(pdf_file_name) == Replace(pdf_file_name, DotPdf, DotJson)

\* A directory with one more file, or the file of that name replaced in
\* place (open(..., "w") truncates).
PutFile(files, file) ==
    IF \E p \in 1..Len(files) : files[p].name = file.name
    THEN [p \in 1..Len(files) |->
             IF files[p].name = file.name THEN file ELSE files[p]]
    ELSE Append(files, file)

(***************************************************************************)
(* Inputs: file names, JSON payloads and the responses of the remote model *)
(***************************************************************************)

MaxPdfs == 2

Names == << <<"a", ".", "p", "d", "f">>, <<"a", ".", "p", "d", "f", ".", "p",
    "d", "f">>, <<"a", ".", "j", "s", "o", "n", ".", "p", "d", "f">>, <<"n",
    ".", "t", "x", "t">> >>

\* The listings os.listdir may return: up to MaxPdfs distinct names, in any
\* order.
Listings ==
    {l \in UNION {[1..n -> 1..Len(Names)] : n \in 0..MaxPdfs} :
        \A a, b \in DOMAIN l : a # b => l[a] # l[b]}

Member(k, v) == [k |-> k, v |-> v]

\* Two questions sharing a context, with marks.
BlockXY ==
    JObj(<< Member(KeyQuestion, JArr(<<JStr(<<"X", "?">>), JStr(<<" ",
        "Y">>)>>)),
            Member(KeyContext, JStr(<<"C", " ">>)),
            Member(KeyMarks, JStr(<<"5">>)) >>)
\* One question given as a bare string, no context, no marks.
BlockZ == JObj(<< Member(KeyQuestion, JStr(<<"Z">>)) >>)
\* A block whose question list is empty.
BlockEmpty ==
    JObj(<< Member(KeyQuestion, JArr(<<>>)), Member(KeyContext, JStr(<<"C">>)) >>)

RecordXY ==
    JObj(<< Member(KeyFilename, JStr(<<"a">>)),
            Member(KeyQuestion, JArr(<<BlockXY>>)) >>)
RecordNone ==
    JObj(<< Member(KeyFilename, JStr(<<"a">>)),
            Member(KeyQuestion, JArr(<<>>)) >>)
RecordMixed ==
    JObj(<< Member(KeyQuestion, JArr(<<BlockEmpty, BlockZ, BlockXY>>)) >>)
ArrayXY == JArr(<<BlockXY>>)
\* A record outside the data model: the marks of its block are a list.
BlockListMarks ==
    JObj(<< Member(KeyQuestion, JArr(<<JStr(<<"W">>)>>)),
            Member(KeyMarks, JArr(<<JStr(<<"5">>)>>)) >>)
RecordListMarks == JObj(<< Member(KeyQuestion, JArr(<<BlockListMarks>>)) >>)

\* The records question_extractor may have left in json/.
StoredRecords == <<RecordXY, RecordNone, RecordMixed, ArrayXY, RecordListMarks>>

\* write_questions_to_file(data, json_file_name) on the json/ folder: the
\* open fails when the folder is missing, and the exception is caught.
\* src is the index of the PDF the record comes from.
write_questions_to_file(folder, questions, json_file_name, src) ==
    IF ~folder.exists THEN folder
    ELSE [folder EXCEPT !.files =
             PutFile(@, [name |-> json_file_name, text |-> JsonDumps(questions),
                         src |-> src])]

\* The texts a response may carry inside or outside a fence.
Payloads ==
    << JsonDumps(RecordXY), JsonDumps(RecordNone), JsonDumps(RecordMixed),
       JsonDumps(ArrayXY), JsonDumps(RecordListMarks), NoRelevant, <<"{",
           "\"", "f", "i", "l", "e", "n", "a", "m", "e", "\"", ":", " ",
           "}">> >>

\* The shapes of a response text around a payload: the payload alone, or
\* held in a fenced block: with the json tag and newlines, bare, with the
\* tag and a blank, with blanks and newlines but no tag, and with prose
\* before the block and after it.
Wrap(payload, form) ==
    CASE form = "plain" -> payload
      [] form = "tagged" ->
            Fence \o JsonTag \o <<"\n">> \o payload \o <<"\n">> \o Fence
      [] form = "bare" -> Fence \o payload \o Fence
      [] form = "tagged_blank" -> Fence \o JsonTag \o <<" ">> \o payload \o Fence
      [] form = "untagged_lines" ->
            Fence \o <<" ", "\n">> \o payload \o <<"\n", " ">> \o Fence
      [] form = "prose" ->
            <<"H", "e", "r", "e", ":",
                "\n">> \o Fence \o JsonTag \o <<"\n">> \o payload
                \o <<"\n">> \o Fence \o <<"\n", "D", "o", "n", "e", ".">>

PlainForm == "plain"
FencedForms == {"tagged", "bare", "tagged_blank", "untagged_lines", "prose"}
Forms == {PlainForm} \cup FencedForms

\* The outcomes of model.generate_content in analyze_text_with_gemini.
Responses ==
    {[kind |-> "exception", payload |-> 0, form |-> "none"],
     [kind |-> "nocontent", payload |-> 0, form |-> "none"]}
    \cup {[kind |-> "text", payload |-> p, form |-> f] :
             p \in 1..Len(Payloads), f \in Forms}

ResponseText(response) ==
    [kind |-> response.kind,
     text |-> IF response.kind = "text"
              THEN Wrap(Payloads[response.payload], response.form)
              ELSE <<>>]

(***************************************************************************)
(* answer_generator.py: pure parts                                         *)
(***************************************************************************)

\* dict.get(key, default)
Get(obj, name, default) ==
    IF \E p \in 1..Len(obj.v) : obj.v[p].k = name
    THEN obj.v[CHOOSE p \in 1..Len(obj.v) : obj.v[p].k = name].v
    ELSE default

\* questions_list of a block after the isinstance tests: the list, a bare
\* string as a list of one, anything else as the empty list.
QuestionsList(q_block) ==
    LET q == Get(q_block, KeyQuestion, JArr(<<>>))
    IN  IF q.t = "str" THEN <<q>>
        ELSE IF q.t = "arr" THEN q.v
        ELSE <<>>

\* A variant of the numbering that drops the index within the block.
NumberDisplayBlockOnly(i, j, n) == IntToStr(i)

\* question_number_display
NumberDisplay(i, j, n) ==
    IF n > 1 THEN IntToStr(i) \o <<".">> \o IntToStr(j) ELSE IntToStr(i)

\* The outcomes of model.generate_content in generate_answer_with_gemini:
\* 0 is a failure of the call, k > 0 is the answer text Answers[k].
Answers == << <<" ", "A", "\n">>, <<"B">> >>
Outcomes == 0..Len(Answers)

\* A variant of generate_answer_with_gemini whose except clause is missing:
\* the exception of a failed call leaves the function.
generate_answer_uncaught(outcome) ==
    IF outcome = 0
    THEN [raised |-> TRUE, text |-> <<>>]
    ELSE [raised |-> FALSE, text |-> Answers[outcome]]

\* generate_answer_with_gemini for one outcome of the remote call: the
\* exception is caught and the placeholder returned.
generate_answer_with_gemini(outcome) ==
    IF outcome = 0
    THEN [raised |-> FALSE, text |-> AnswerError]
    ELSE [raised |-> FALSE, text |-> Answers[outcome]]

\* One md_file.write call: the literal text of the call is named by tag, the
\* interpolated value is text.
Line(tag, text) == [tag |-> tag, text |-> text]

LinePrefix(tag) ==
    CASE tag = "title"    -> <<"#", " ">>
      [] tag = "section"  -> <<"#", "#", "#", " ", "Q", "u", "e", "s", "t",
          "i", "o", "n", "s", " ", "a", "n", "d", " ", "A", "n", "s", "w",
          "e", "r", "s">>
      [] tag = "empty"    -> <<"N", "o", " ", "q", "u", "e", "s", "t", "i",
          "o", "n", "s", " ", "f", "o", "u", "n", "d", " ", "i", "n", " ",
          "t", "h", "i", "s", " ", "J", "S", "O", "N", " ", "f", "i", "l",
          "e", ".">>
      [] tag = "number"   -> <<"#", "#", "#", " ", "Q", "u", "e", "s", "t",
          "i", "o", "n", " ", "N", "o", ":", " ">>
      [] tag = "context"  -> <<"*", "*", " ", "*", "*", " ">>
      [] tag = "question" -> <<"*", "*", "Q", "u", "e", "s", "t", "i", "o",
          "n", ":", "*", "*", " ">>
      [] tag = "marks"    -> <<"*", "*", "M", "a", "r", "k", "s", ":", "*",
          "*", " ">>
      [] tag = "answer"   -> <<"*", "*", "A", "n", "s", "w", "e", "r", ":",
          "*", "*", " ">>

LineSuffix(tag) ==
    IF tag \in {"title", "section", "answer"} THEN <<"\n",
        "\n">> ELSE <<"\n">>

\* The bytes of a Markdown file: its writes, concatenated.
RECURSIVE MdBytes(_)
MdBytes(lines) ==
    IF lines = <<>> THEN <<>>
    ELSE LinePrefix(Head(lines).tag) \o Head(lines).text
         \o LineSuffix(Head(lines).tag) \o MdBytes(Tail(lines))

\* The writes of one question up to the remote call, or up to the point
\* where a value that is no str makes .strip() raise AttributeError: the
\* context line, the question line, the marks line, and last the
\* context.strip() among the arguments of the call.
QuestionLines(i, j, n, question, context, marks) ==
    LET number == <<Line("number", NumberDisplay(i, j, n))>>
        ctx    == IF Truthy(context) THEN <<Line("context", Strip(context.v))>>
                  ELSE <<>>
    IN  IF Truthy(context) /\ context.t # "str"
        THEN [raised |-> TRUE, lines |-> number]
        ELSE IF question.t # "str"
        THEN [raised |-> TRUE, lines |-> number \o ctx]
        ELSE IF marks.t # "str"
        THEN [raised |-> TRUE,
              lines |-> number \o ctx \o <<Line("question", Strip(question.v))>>]
        ELSE [raised |-> context.t # "str",
              lines |-> number \o ctx
                        \o <<Line("question", Strip(question.v)),
                             Line("marks", Strip(marks.v))>>]

\* A variant of the scan that leaves the loop at an empty block (break for
\* continue).
ScanStopAtEmpty(blocks, b) ==
    IF b > Len(blocks) THEN [kind |-> "end", blk |-> 0]
    ELSE IF blocks[b].t # "obj" THEN [kind |-> "error", blk |-> b]
    ELSE IF QuestionsList(blocks[b]) = <<>> THEN [kind |-> "end", blk |-> 0]
    ELSE [kind |-> "question", blk |-> b]

\* The next block from b on that holds a question: "question" with its
\* index, "end" when the blocks are exhausted, "error" when a block is no
\* dict (q_block.get raises AttributeError).
RECURSIVE Scan(_, _)
Scan(blocks, b) ==
    IF b > Len(blocks) THEN [kind |-> "end", blk |-> 0]
    ELSE IF blocks[b].t # "obj" THEN [kind |-> "error", blk |-> b]
    ELSE IF QuestionsList(blocks[b]) = <<>> THEN Scan(blocks, b + 1)
    ELSE [kind |-> "question", blk |-> b]

(***************************************************************************)
(* State                                                                   *)
(***************************************************************************)

VARIABLES
    pc,          \* where the run of main.py stands
    key,         \* GEMINI_API_KEY: "absent", "empty" or "set"
    pdfFolder,   \* the input folder: [exists, files], files as listed
    pdf_files,   \* question_extractor: the names of the listing ending .pdf
    idx,         \* question_extractor: the loop index, 1-based
    jsonFolder,  \* json/: [exists, files], a file is [name, text, src]
    mdFolder,    \* answers_markdown/: a file is [name, lines, src, record]
    outFolder,   \* generated_pdf/: a file is [name, src]
    jf,          \* process_json_files: index of the JSON file in the listing
    data,        \* process_json_files: the record loaded from that file
    blk,         \* process_json_files: index of the question block
    qn,          \* process_json_files: index of the question in the block
    hist,        \* per PDF of pdf_files, what question_extractor did with it
    io,          \* what the run did: prompts, the error report, remote calls
    outcomes,    \* the outcomes of the remote calls of process_json_files
    run,         \* which run of answer_generator.py this is
    firstRun,    \* the Markdown files and outcomes of the first run
    probe        \* extract_json_from_response applied to wrappings of a text

vars == <<pc, key, pdfFolder, pdf_files, idx, jsonFolder, mdFolder, outFolder,
          jf, data, blk, qn, hist, io, outcomes, run, firstRun, probe>>

extractVars == <<pdf_files, idx, hist>>
processVars == <<jf, data, blk, qn, outcomes>>
otherRuns == <<run, firstRun, probe>>

EmptyFolder(exists) == [exists |-> exists, files |-> <<>>]

\* The result of a call that has not been made.
Pending == [raised |-> "pending", val |-> JNull]

NoProbe == [payload |-> 0, form |-> "none", plain |-> Pending, wrapped |-> Pending]

(***************************************************************************)
(* main.py: a run of the three stages                                      *)
(***************************************************************************)

Init ==
    /\ pc = "import"
    /\ key \in {"absent", "empty", "set"}
    /\ \E exists \in BOOLEAN, l \in Listings :
          /\ ~exists => l = <<>>
          /\ pdfFolder = [exists |-> exists,
                          files |-> [p \in DOMAIN l |-> Names[l[p]]]]
    /\ pdf_files = <<>>
    /\ idx = 0
    /\ jsonFolder \in {EmptyFolder(e) : e \in BOOLEAN}
    /\ mdFolder \in {EmptyFolder(e) : e \in BOOLEAN}
    /\ outFolder = EmptyFolder(mdFolder.exists)
    /\ jf = 0 /\ blk = 0 /\ qn = 0
    /\ data = JNull
    /\ hist = <<>>
    /\ io = [prompts |-> 0, reported |-> FALSE, calls |-> 0]
    /\ outcomes = <<>>
    /\ run = 1
    /\ firstRun = [files |-> <<>>, outcomes |-> <<>>]
    /\ probe = NoProbe

\* A variant of the credential check that goes on without the key.
CredentialCheckNoExit(k) == "extract_start"

\* The imports of main.py: answer_generator's module-level credential check
\* prints the error and exits when the key is not in the environment.
CredentialCheck(k) == IF k = "absent" THEN "aborted" ELSE "extract_start"

ImportModules ==
    /\ pc = "import"
    /\ pc' = CredentialCheck(key)
    /\ io' = [io EXCEPT !.reported = (key = "absent")]
    /\ UNCHANGED <<key, pdfFolder, jsonFolder, mdFolder, outFolder>>
    /\ UNCHANGED <<extractVars, processVars, otherRuns>>

SelectPdfs(files) == SelectSeq(files, LAMBDA f : EndsWith(f, DotPdf))

\* question_extractor up to its loop: the folder prompt, os.listdir (which
\* raises FileNotFoundError on a missing folder, uncaught), the topic prompt.
ExtractorStart ==
    /\ pc = "extract_start"
    /\ IF ~pdfFolder.exists
       THEN /\ pc' = "crashed"
            /\ io' = [io EXCEPT !.prompts = 1]
            /\ UNCHANGED <<pdf_files, idx>>
       ELSE /\ pdf_files' = SelectPdfs(pdfFolder.files)
            /\ io' = [io EXCEPT !.prompts = 2]
            /\ idx' = 1
            /\ pc' = IF pdf_files' = <<>> THEN "process_start"
                     ELSE "extract_loop"
    /\ UNCHANGED <<key, pdfFolder, jsonFolder, mdFolder, outFolder, hist>>
    /\ UNCHANGED <<processVars, otherRuns>>

\* The number of questions of a block as the data model counts them: the
\* length of its question list, one for a single question string.
IndividualQuestions(block) ==
    LET q == Get(block, KeyQuestion, JArr(<<>>))
    IN  IF q.t = "arr" THEN Len(q.v) ELSE IF q.t = "str" THEN 1 ELSE 0

BlocksOf(record) == Get(record, KeyQuestion, JArr(<<>>)).v

RECURSIVE QuestionsBefore(_, _)
QuestionsBefore(blocks, i) ==
    IF i <= 1 THEN 0
    ELSE QuestionsBefore(blocks, i - 1) + IndividualQuestions(blocks[i - 1])

RecordQuestionCount(record) ==
    QuestionsBefore(BlocksOf(record), Len(BlocksOf(record)) + 1)

\* Whether a response reports no relevant question: no content, the sentinel
\* text, or a record holding no question.
ZeroQuestions(response) ==
    \/ response.kind = "nocontent"
    \/ /\ response.kind = "text"
       /\ LET r == JsonLoads(Payloads[response.payload])
          IN  \/ Payloads[response.payload] = NoRelevant
              \/ r.ok /\ r.val.t = "obj" /\ RecordQuestionCount(r.val) = 0

\* Whether the response text holds no parseable structure: its payload is
\* no JSON text, fenced or not.
Unparseable(response) ==
    /\ response.kind = "text"
    /\ ~JsonLoads(Payloads[response.payload]).ok

\* What one iteration of the loop does with a response.
Analysis(response) ==
    LET relevant_questions ==
            analyze_text_with_gemini("set", ResponseText(response))
    IN  [ret |-> relevant_questions,
         write |-> ShouldWrite(relevant_questions),
         zero |-> ZeroQuestions(response),
         unparsed |-> Unparseable(response)]

\* The distinct results of the analysis when the key is set.
Analyses == {Analysis(response) : response \in Responses}

NoKeyAnalysis ==
    LET relevant_questions ==
            analyze_text_with_gemini("empty", [kind |-> "none", text |-> <<>>])
    IN  [ret |-> relevant_questions,
         write |-> ShouldWrite(relevant_questions),
         zero |-> FALSE,
         unparsed |-> FALSE]

AfterPdf == IF idx = Len(pdf_files) THEN "process_start" ELSE "extract_loop"

\* One iteration of the loop of question_extractor with no text extracted
\* (the file cannot be opened, or has no text): the analysis is skipped.
ExtractPdfNoText ==
    /\ pc = "extract_loop"
    /\ hist' = Append(hist, [text |-> FALSE, zero |-> FALSE, unparsed |-> FALSE,
                             ret |-> JNull, wrote |-> FALSE])
    /\ idx' = idx + 1
    /\ pc' = AfterPdf
    /\ UNCHANGED <<key, pdfFolder, pdf_files, jsonFolder, mdFolder, outFolder,
                   io>>
    /\ UNCHANGED <<processVars, otherRuns>>

\* One iteration with text extracted: the analysis (a remote call when the
\* key is not empty), and the write of its result unless it is empty or one
\* of the two sentinels.
ExtractPdf ==
    /\ pc = "extract_loop"
    /\ \E a \in IF key = "set" THEN Analyses ELSE {NoKeyAnalysis} :
          /\ jsonFolder' =
                IF a.write
                THEN write_questions_to_file(jsonFolder, a.ret,
                                             JsonName(pdf_files[idx]), idx)
                ELSE jsonFolder
          /\ hist' = Append(hist, [text |-> TRUE, zero |-> a.zero,
                                   unparsed |-> a.unparsed, ret |-> a.ret,
                                   wrote |-> a.write /\ jsonFolder.exists])
    /\ io' = [io EXCEPT !.calls = IF key = "set" THEN @ + 1 ELSE @]
    /\ idx' = idx + 1
    /\ pc' = AfterPdf
    /\ UNCHANGED <<key, pdfFolder, pdf_files, mdFolder, outFolder>>
    /\ UNCHANGED <<processVars, otherRuns>>

(***************************************************************************)
(* process_json_files                                                      *)
(***************************************************************************)

\* The entry of process_json_files: it returns when json/ is missing, and
\* creates answers_markdown/ otherwise, then lists json/.
ProcessStart ==
    /\ pc = "process_start"
    /\ IF ~jsonFolder.exists
       THEN /\ pc' = "convert"
            /\ UNCHANGED <<mdFolder, jf>>
       ELSE /\ mdFolder' = [mdFolder EXCEPT !.exists = TRUE]
            /\ jf' = 1
            /\ pc' = IF jsonFolder.files = <<>> THEN "convert"
                     ELSE "process_loop"
    /\ outcomes' = <<>>
    /\ UNCHANGED <<key, pdfFolder, jsonFolder, outFolder, io, data, blk, qn>>
    /\ UNCHANGED <<extractVars, otherRuns>>

\* questions_array of the record the loop stands at.
CurrentBlocks == Get(data, KeyQuestion, JArr(<<>>)).v

MarkdownName(filename) == SplitextRoot(filename) \o DotMd

\* file_identifier: the record's filename, or the base name of the file.
\* The records of the model hold a string there or nothing.
FileIdentifier(record, filename) ==
    Get(record, KeyFilename, JStr(SplitextRoot(filename))).v

AfterFile == IF jf = Len(jsonFolder.files) THEN "convert" ELSE "process_loop"

\* A variant of the open that appends to a file that is there already
\* (mode 'a').
OpenMarkdownAppend(files, file) ==
    IF \E p \in 1..Len(files) : files[p].name = file.name
    THEN [p \in 1..Len(files) |->
             IF files[p].name = file.name
             THEN [file EXCEPT !.lines = files[p].lines \o @]
             ELSE files[p]]
    ELSE Append(files, file)

\* open(markdown_filepath, 'w'): the file is created, or truncated when it
\* is there already.
OpenMarkdown(files, file) == PutFile(files, file)

\* One iteration of the loop over json/ up to the first question: the file
\* is skipped when its name does not end in .json; json.load and data.get
\* raise inside the try (JSONDecodeError, or AttributeError when the value
\* is no dict) before the Markdown file is opened; the Markdown file is
\* opened and gets its two headings; a record without questions gets one
\* more line and the loop continues.
ProcessFile ==
    /\ pc = "process_loop"
    /\ LET file   == jsonFolder.files[jf]
           loaded == JsonLoads(file.text)
           qa     == Get(loaded.val, KeyQuestion, JArr(<<>>))
           head   == << Line("title", FileIdentifier(loaded.val, file.name)),
                        Line("section", <<>>) >>
           md(lines) == [name |-> MarkdownName(file.name), lines |-> lines,
                         src |-> file.src, record |-> loaded.val]
           first  == Scan(qa.v, 1)
       IN  IF ~EndsWith(file.name, DotJson) \/ ~loaded.ok \/ loaded.val.t # "obj"
           THEN /\ pc' = AfterFile
                /\ jf' = jf + 1
                /\ UNCHANGED <<mdFolder, data, blk, qn>>
           ELSE IF ~Truthy(qa)
           THEN /\ mdFolder' = [mdFolder EXCEPT !.files =
                                   OpenMarkdown(@, md(Append(head, Line("empty", <<>>))))]
                /\ pc' = AfterFile
                /\ jf' = jf + 1
                /\ UNCHANGED <<data, blk, qn>>
           ELSE IF qa.t # "arr" \/ first.kind # "question"
           THEN /\ mdFolder' = [mdFolder EXCEPT !.files = OpenMarkdown(@, md(head))]
                /\ pc' = AfterFile
                /\ jf' = jf + 1
                /\ UNCHANGED <<data, blk, qn>>
           ELSE /\ mdFolder' = [mdFolder EXCEPT !.files = OpenMarkdown(@, md(head))]
                /\ pc' = "process_file"
                /\ data' = loaded.val
                /\ blk' = first.blk
                /\ qn' = 1
                /\ UNCHANGED jf
    /\ UNCHANGED <<key, pdfFolder, jsonFolder, outFolder, io, outcomes>>
    /\ UNCHANGED <<extractVars, otherRuns>>

\* The Markdown file of the JSON file the loop stands at, with more writes.
AppendLines(files, name, lines) ==
    [p \in 1..Len(files) |->
        IF files[p].name = name
        THEN [files[p] EXCEPT !.lines = @ \o lines]
        ELSE files[p]]

\* One iteration of the loop over the questions of a block: the writes of
\* the question, the remote call and the write of its answer; then the next
\* question, the next block that holds one, or the next file.  An exception
\* leaves the loops for the except clause of the file.
ProcessQuestion(outs) ==
    /\ pc = "process_file"
    /\ \E outcome \in outs :
          LET file    == jsonFolder.files[jf]
              q_block == CurrentBlocks[blk]
              questions_list == QuestionsList(q_block)
              context == Get(q_block, KeyContext, JStr(<<>>))
              marks   == Get(q_block, KeyMarks, JStr(MarksDefault))
              before  == QuestionLines(blk, qn, Len(questions_list),
                                       questions_list[qn], context, marks)
              answer  == generate_answer_with_gemini(outcome)
              called  == ~before.raised
              done    == called /\ ~answer.raised
              lines   == IF done
                         THEN Append(before.lines,
                                     Line("answer", Strip(answer.text)))
                         ELSE before.lines
              next    == IF qn < Len(questions_list)
                         THEN [kind |-> "question", blk |-> blk]
                         ELSE Scan(CurrentBlocks, blk + 1)
          IN  /\ mdFolder' = [mdFolder EXCEPT !.files =
                                 AppendLines(@, MarkdownName(file.name), lines)]
              /\ io' = [io EXCEPT !.calls = IF called THEN @ + 1 ELSE @]
              /\ outcomes' = IF called THEN Append(outcomes, outcome)
                             ELSE outcomes
              /\ IF done /\ next.kind = "question"
                 THEN /\ blk' = next.blk
                      /\ qn' = IF next.blk = blk THEN qn + 1 ELSE 1
                      /\ UNCHANGED <<pc, jf, data>>
                 ELSE /\ pc' = AfterFile
                      /\ jf' = jf + 1
                      /\ data' = JNull
                      /\ blk' = 0
                      /\ qn' = 0
    /\ UNCHANGED <<key, pdfFolder, jsonFolder, outFolder>>
    /\ UNCHANGED <<extractVars, otherRuns>>

(***************************************************************************)
(* markdown_convertor.py                                                   *)
(***************************************************************************)

PdfName(filename) == SplitextRoot(filename) \o DotPdf

IsMarkdown(filename) ==
    EndsWith(filename, DotMd) \/ EndsWith(filename, DotMarkdown)

\* The loop of convert_markdown_to_pdf over the listing: one PDF file per
\* Markdown file.
RECURSIVE ConvertAll(_, _, _)
ConvertAll(files, p, out) ==
    IF p > Len(files) THEN out
    ELSE ConvertAll(files, p + 1,
                    IF IsMarkdown(files[p].name)
                    THEN PutFile(out, [name |-> PdfName(files[p].name),
                                       src |-> files[p].src])
                    ELSE out)

\* convert_markdown_to_pdf: the output folder is created, then os.listdir
\* raises FileNotFoundError, uncaught, when the Markdown folder is missing.
ConvertMarkdown ==
    /\ pc = "convert"
    /\ IF ~mdFolder.exists
       THEN /\ pc' = "crashed"
            /\ outFolder' = [outFolder EXCEPT !.exists = TRUE]
       ELSE /\ pc' = "done"
            /\ outFolder' = [exists |-> TRUE,
                             files |-> ConvertAll(mdFolder.files, 1,
                                                  outFolder.files)]
    /\ UNCHANGED <<key, pdfFolder, jsonFolder, mdFolder, io>>
    /\ UNCHANGED <<extractVars, processVars, otherRuns>>

\* The outcomes of generate_content the run of main.py ranges over.
MainOutcomes == 0..1

Next ==
    \/ ImportModules
    \/ ExtractorStart
    \/ ExtractPdfNoText
    \/ ExtractPdf
    \/ ProcessStart
    \/ ProcessFile
    \/ ProcessQuestion(MainOutcomes)
    \/ ConvertMarkdown

Spec == Init /\ [][Next]_vars

(***************************************************************************)
(* answer_generator.py run as a script, twice over the same json/ folder   *)
(***************************************************************************)

InitTwice ==
    /\ pc = "process_start"
    /\ key = "set"
    /\ pdfFolder = EmptyFolder(TRUE)
    /\ pdf_files = <<>>
    /\ idx = 0
    /\ \E r \in 1..Len(StoredRecords) :
          jsonFolder = [exists |-> TRUE,
                        files |-> << [name |-> JsonName(Names[1]),
                                      text |-> JsonDumps(StoredRecords[r]),
                                      src |-> 1] >>]
    /\ mdFolder \in {EmptyFolder(e) : e \in BOOLEAN}
    /\ outFolder = EmptyFolder(FALSE)
    /\ jf = 0 /\ blk = 0 /\ qn = 0
    /\ data = JNull
    /\ hist = <<>>
    /\ io = [prompts |-> 0, reported |-> FALSE, calls |-> 0]
    /\ outcomes = <<>>
    /\ run = 1
    /\ firstRun = [files |-> <<>>, outcomes |-> <<>>]
    /\ probe = NoProbe

\* The script is started again once its first run has ended.
RunAgain ==
    /\ pc = "convert"
    /\ run = 1
    /\ firstRun' = [files |-> mdFolder.files, outcomes |-> outcomes]
    /\ run' = 2
    /\ pc' = "process_start"
    /\ UNCHANGED <<key, pdfFolder, jsonFolder, mdFolder, outFolder, io,
                   probe>>
    /\ UNCHANGED <<extractVars, processVars>>

NextTwice ==
    \/ ProcessStart
    \/ ProcessFile
    \/ ProcessQuestion(Outcomes)
    \/ RunAgain

SpecTwice == InitTwice /\ [][NextTwice]_vars

(***************************************************************************)
(* extract_json_from_response applied to one payload, alone and fenced     *)
(***************************************************************************)

InitExtract ==
    /\ pc = "probe"
    /\ key = "set"
    /\ pdfFolder = EmptyFolder(TRUE)
    /\ pdf_files = <<>>
    /\ idx = 0
    /\ jsonFolder = EmptyFolder(TRUE)
    /\ mdFolder = EmptyFolder(TRUE)
    /\ outFolder = EmptyFolder(TRUE)
    /\ jf = 0 /\ blk = 0 /\ qn = 0
    /\ data = JNull
    /\ hist = <<>>
    /\ io = [prompts |-> 0, reported |-> FALSE, calls |-> 0]
    /\ outcomes = <<>>
    /\ run = 1
    /\ firstRun = [files |-> <<>>, outcomes |-> <<>>]
    /\ \E p \in 1..Len(Payloads), f \in FencedForms :
          probe = [payload |-> p, form |-> f, plain |-> Pending,
                   wrapped |-> Pending]

ExtractPlain ==
    /\ pc = "probe"
    /\ probe.plain = Pending
    /\ probe' = [probe EXCEPT !.plain =
                    extract_json_from_response(
                        Wrap(Payloads[probe.payload], PlainForm))]
    /\ UNCHANGED <<pc, key, pdfFolder, jsonFolder, mdFolder, outFolder, io,
                   run, firstRun>>
    /\ UNCHANGED <<extractVars, processVars>>

ExtractFenced ==
    /\ pc = "probe"
    /\ probe.wrapped = Pending
    /\ probe' = [probe EXCEPT !.wrapped =
                    extract_json_from_response(
                        Wrap(Payloads[probe.payload], probe.form))]
    /\ UNCHANGED <<pc, key, pdfFolder, jsonFolder, mdFolder, outFolder, io,
                   run, firstRun>>
    /\ UNCHANGED <<extractVars, processVars>>

NextExtract == ExtractPlain \/ ExtractFenced

SpecExtract == InitExtract /\ [][NextExtract]_vars

(***************************************************************************)
(* Properties                                                              *)
(***************************************************************************)

\* The files of a folder that come from the PDF of index d.
FilesFrom(folder, d) == {p \in 1..Len(folder.files) : folder.files[p].src = d}

\* A record of the data model: question blocks whose questions, context
\* and marks are strings.
IsStr(val) == val.t = "str"

WellTypedBlock(block) ==
    /\ block.t = "obj"
    /\ LET q == Get(block, KeyQuestion, JArr(<<>>))
       IN  \/ IsStr(q)
           \/ q.t = "arr" /\ \A p \in 1..Len(q.v) : IsStr(q.v[p])
    /\ IsStr(Get(block, KeyContext, JStr(<<>>)))
    /\ IsStr(Get(block, KeyMarks, JStr(<<>>)))

WellTyped(record) ==
    /\ record.t = "obj"
    /\ Get(record, KeyQuestion, JArr(<<>>)).t = "arr"
    /\ \A b \in 1..Len(BlocksOf(record)) : WellTypedBlock(BlocksOf(record)[b])

AnswerCount(lines) ==
    Cardinality({p \in 1..Len(lines) : lines[p].tag = "answer"})

RECURSIVE AnswersIn(_, _)
AnswersIn(files, m) ==
    IF m = 0 THEN 0
    ELSE AnswersIn(files, m - 1) + AnswerCount(files[m].lines)

\* The JSON files process_json_files has dealt with.
Consumed == {p \in 1..Len(jsonFolder.files) : p < jf}

\* The Markdown files that are not being written.
Closed ==
    {p \in 1..Len(mdFolder.files) :
        ~(/\ pc = "process_file"
          /\ mdFolder.files[p].name = MarkdownName(jsonFolder.files[jf].name))}

\* The sections of a Markdown file: section k runs from the k-th numbered
\* heading to the line before the next one.
NumberLines(lines) == {p \in 1..Len(lines) : lines[p].tag = "number"}

SectionStart(lines, k) ==
    CHOOSE p \in NumberLines(lines) :
        Cardinality({q \in NumberLines(lines) : q <= p}) = k

SectionEnd(lines, k) ==
    IF k = Cardinality(NumberLines(lines)) THEN Len(lines)
    ELSE SectionStart(lines, k + 1) - 1

HasField(lines, k, tag) ==
    \E p \in SectionStart(lines, k)..SectionEnd(lines, k) : lines[p].tag = tag

Field(lines, k, tag) ==
    lines[CHOOSE p \in SectionStart(lines, k)..SectionEnd(lines, k) :
              lines[p].tag = tag].text

----------------------------------------------------------------------------
\* C1: after a full run, a PDF whose analysis yields no relevant question
\* (no content, the sentinel text, or a record without questions) has no
\* JSON file, no Markdown file and no PDF file.
C1_NoFilesForZeroQuestions ==
    pc = "done" =>
        \A d \in 1..Len(hist) :
            hist[d].zero =>
                /\ ~hist[d].wrote
                /\ FilesFrom(jsonFolder, d) = {}
                /\ FilesFrom(mdFolder, d) = {}
                /\ FilesFrom(outFolder, d) = {}

----------------------------------------------------------------------------
\* C2: a JSON payload parses to the same record whether the response holds
\* it in a fenced block or alone.
C2_FencedAndPlainAgree ==
    (/\ probe.plain # Pending
     /\ probe.wrapped # Pending
     /\ JsonLoads(Payloads[probe.payload]).ok)
        => probe.plain = probe.wrapped

----------------------------------------------------------------------------
\* C3: for every JSON file process_json_files has dealt with whose record
\* is of the data model, the Markdown file holds as many answers as the
\* record has individual questions, and every remote call has produced
\* exactly one of the answers written.
C3_AnswersMatchQuestions ==
    /\ \A p \in Consumed :
          LET file == jsonFolder.files[p]
          IN  WellTyped(hist[file.src].ret) =>
                 \E m \in Closed :
                    /\ mdFolder.files[m].name = MarkdownName(file.name)
                    /\ mdFolder.files[m].record = hist[file.src].ret
                    /\ AnswerCount(mdFolder.files[m].lines)
                          = RecordQuestionCount(hist[file.src].ret)
    /\ pc \in {"convert", "done"} =>
          Len(outcomes) = AnswersIn(mdFolder.files, Len(mdFolder.files))

C3_Witness ==
    /\ pc = "done"
    /\ \E p \in Consumed :
          LET record == hist[jsonFolder.files[p].src].ret
          IN  /\ WellTyped(record)
              /\ RecordQuestionCount(record) = 3
              /\ \E k \in 1..Len(outcomes) : outcomes[k] = 0
              /\ \E k \in 1..Len(outcomes) : outcomes[k] # 0

----------------------------------------------------------------------------
\* C4: a step of process_json_files whose remote call fails makes one call,
\* writes the placeholder as the answer of the question and moves on to the
\* next question or file; and once the stage is over every record of the
\* data model has an answer for each of its questions.
FailedCall == pc = "process_file" /\ outcomes' = Append(outcomes, 0)

CurrentLines(files) ==
    files[CHOOSE p \in 1..Len(files) :
              files[p].name = MarkdownName(jsonFolder.files[jf].name)].lines

PlaceholderRecorded ==
    LET before == CurrentLines(mdFolder.files)
        after  == CurrentLines(mdFolder'.files)
    IN  /\ Len(after) > Len(before)
        /\ SubSeq(after, 1, Len(before)) = before
        /\ after[Len(after)] = Line("answer", AnswerError)
        /\ AnswerCount(after) = AnswerCount(before) + 1
        /\ io'.calls = io.calls + 1
        /\ <<jf', blk', qn'>> # <<jf, blk, qn>>
        /\ pc' \in {"process_file", "process_loop", "convert"}
        /\ jf' \in {jf, jf + 1}

AllAnswered ==
    pc \in {"convert", "done"} =>
        \A p \in 1..Len(jsonFolder.files) :
            LET file == jsonFolder.files[p]
            IN  WellTyped(hist[file.src].ret) =>
                   \E m \in 1..Len(mdFolder.files) :
                      /\ mdFolder.files[m].src = file.src
                      /\ AnswerCount(mdFolder.files[m].lines)
                            = RecordQuestionCount(hist[file.src].ret)

C4_FailureGivesPlaceholder ==
    /\ [][FailedCall => PlaceholderRecorded]_vars
    /\ []AllAnswered

C4_Witness ==
    /\ pc = "done"
    /\ Len(jsonFolder.files) = 2
    /\ Len(outcomes) = 5
    /\ outcomes[1] = 0
    /\ outcomes[4] = 0

----------------------------------------------------------------------------
\* C5: with the key in the environment, no run of main.py ends in an
\* uncaught exception.
C5_NoUncaughtException == key # "absent" => pc # "crashed"

----------------------------------------------------------------------------
\* C6: without the key in the environment, the run reports the error and
\* ends at the imports: no prompt, no PDF opened, no remote call, no folder
\* created, no file written.
C6_AbortBeforeWork ==
    key = "absent" =>
        /\ pc \in {"import", "aborted"}
        /\ pc = "aborted" => io.reported
        /\ io.prompts = 0
        /\ io.calls = 0
        /\ hist = <<>>
        /\ jsonFolder.files = <<>>
        /\ mdFolder.files = <<>>
        /\ outFolder = EmptyFolder(mdFolder.exists)

C6_Witness ==
    /\ key = "absent"
    /\ pc = "aborted"
    /\ Len(pdfFolder.files) = MaxPdfs
    /\ jsonFolder.exists

----------------------------------------------------------------------------
\* C7: a response without a parseable structure comes back from the
\* analysis as the error sentinel, no JSON file is written for its PDF, and
\* the loop goes on: every PDF of the listing gets its iteration, and its
\* analysis when it has text.
C7_UnparseableIsSkipped ==
    /\ \A d \in 1..Len(hist) :
          hist[d].unparsed =>
              /\ hist[d].ret = JStr(AnalysisError)
              /\ ~hist[d].wrote
              /\ FilesFrom(jsonFolder, d) = {}
    /\ pc = "extract_loop" => idx = Len(hist) + 1 /\ idx <= Len(pdf_files)
    /\ (io.prompts = 2 /\ pc # "extract_loop") => Len(hist) = Len(pdf_files)
    /\ \A d \in 1..Len(hist) : hist[d].text => hist[d].ret # JNull

C7_Witness ==
    /\ pc = "done"
    /\ Len(hist) = 2
    /\ hist[1].unparsed
    /\ hist[2].wrote
    /\ FilesFrom(outFolder, 2) # {}

----------------------------------------------------------------------------
\* C8: in the Markdown file of a record of the data model, a block at
\* position i that holds n > 1 questions has n sections in list order,
\* numbered i.1 to i.n, each with the block's question, context and marks
\* (whitespace around them stripped).
C8_SharedContextNumbering ==
    \A m \in Closed :
        LET record == mdFolder.files[m].record
            lines  == mdFolder.files[m].lines
            blocks == BlocksOf(record)
        IN  WellTyped(record) =>
               \A i \in 1..Len(blocks) :
                  LET n == IndividualQuestions(blocks[i])
                      context == Get(blocks[i], KeyContext, JStr(<<>>)).v
                  IN  n > 1 =>
                         \A j \in 1..n :
                            LET k == QuestionsBefore(blocks, i) + j
                            IN  /\ k <= Cardinality(NumberLines(lines))
                                /\ lines[SectionStart(lines, k)].text
                                      = IntToStr(i) \o <<".">> \o IntToStr(j)
                                /\ HasField(lines, k, "question")
                                /\ Field(lines, k, "question")
                                      = Strip(Get(blocks[i], KeyQuestion,
                                                  JNull).v[j].v)
                                /\ IF context = <<>>
                                   THEN ~HasField(lines, k, "context")
                                   ELSE /\ HasField(lines, k, "context")
                                        /\ Field(lines, k, "context")
                                              = Strip(context)
                                /\ HasField(lines, k, "marks")
                                /\ Field(lines, k, "marks")
                                      = Strip(Get(blocks[i], KeyMarks,
                                                  JStr(MarksDefault)).v)
                                /\ HasField(lines, k, "answer")

C8_Witness ==
    /\ pc = "done"
    /\ \E m \in 1..Len(mdFolder.files) :
          /\ mdFolder.files[m].record = RecordMixed
          /\ \E p \in 1..Len(mdFolder.files[m].lines) :
                mdFolder.files[m].lines[p] = Line("number", <<"3", ".", "2">>)
    /\ \E m \in 1..Len(mdFolder.files) :
          /\ mdFolder.files[m].record = RecordXY
          /\ \E p \in 1..Len(mdFolder.files[m].lines) :
                mdFolder.files[m].lines[p] = Line("number", <<"1", ".", "2">>)

----------------------------------------------------------------------------
\* C9: a second run of process_json_files over the same json/ folder
\* leaves Markdown files with the bytes of the first run.
SecondRunOver == run = 2 /\ pc = "convert"

SameBytes ==
    /\ Len(mdFolder.files) = Len(firstRun.files)
    /\ \A p \in 1..Len(firstRun.files) :
          /\ mdFolder.files[p].name = firstRun.files[p].name
          /\ MdBytes(mdFolder.files[p].lines) = MdBytes(firstRun.files[p].lines)

C9_SecondRunSameBytes == SecondRunOver => SameBytes

\* C9, amended: the bytes are those of the first run when every remote call
\* of the second run has the outcome (the answer text, or the failure) it
\* had in the first.
C9_SameOutcomesSameBytes ==
    (SecondRunOver /\ outcomes = firstRun.outcomes) => SameBytes

C9_Witness ==
    /\ SecondRunOver
    /\ outcomes = firstRun.outcomes
    /\ Len(outcomes) = 3
    /\ \E k \in 1..3 : outcomes[k] = 0
    /\ \E k \in 1..3 : outcomes[k] = 2

----------------------------------------------------------------------------
\* C10: two PDFs of one run whose records are written are written to JSON
\* files of different names, so that neither record replaces the other.
C10_OneJsonFilePerPdf ==
    \A a, b \in 1..Len(hist) :
        (a # b /\ hist[a].wrote /\ hist[b].wrote) =>
            /\ JsonName(pdf_files[a]) # JsonName(pdf_files[b])
            /\ FilesFrom(jsonFolder, a) # {}
            /\ FilesFrom(jsonFolder, b) # {}

=============================================================================
